---- MODULE Spec2Model ----
(***************************************************************************)
(* Model of priv/python/erlport/erlterms.py: the Erlang external term      *)
(* format codec (encode, encode_term, decode, decode_term).                *)
(*                                                                         *)
(* Byte strings (Python 2 str) are sequences of 0..255.  A term is a       *)
(* record [k, n, b, c, e]: k is the Python type, n an integer payload,     *)
(* b and c byte (or digit) strings, e the sequence of child terms.         *)
(***************************************************************************)
EXTENDS Integers, Sequences, FiniteSets, TLC

VARIABLES term, compressed, encoded_term, frame, input, result, reframe, pc

vars == <<term, compressed, encoded_term, frame, input, result, reframe, pc>>

(***************************************************************************)
(* Python slicing and struct packing                                       *)
(***************************************************************************)
Min(a, b) == IF a < b THEN a ELSE b

\* string[:n]
Take(s, n) == SubSeq(s, 1, Min(n, Len(s)))

\* string[n:]
Drop(s, n) == SubSeq(s, Min(n, Len(s)) + 1, Len(s))

\* the sequence f as a string held in memory
Str(f) == f \o <<>>

\* string[::-1]
Rev(s) == Str([i \in 1..Len(s) |-> s[Len(s) + 1 - i]])

\* n copies of the byte x
Rep(n, x) == Str([i \in 1..n |-> x])

\* pack(">H", n)
PackH(n) == <<(n \div 256) % 256, n % 256>>

\* pack(">I", n), n < 2^31
PackI(n) == <<n \div 16777216, (n \div 65536) % 256, (n \div 256) % 256, n % 256>>

\* unpack(">H", s)
UnpackH(s) == s[1] * 256 + s[2]

\* The largest length an in-memory string can have; a declared u32 at or
\* above it compares and loops exactly like this value against any string.
Huge == 2147483647

\* unpack(">I", s); values of 2^31 and more are held as Huge
UnpackI(s) ==
  IF s[1] >= 128 THEN Huge
  ELSE s[1] * 16777216 + s[2] * 65536 + s[3] * 256 + s[4]

(***************************************************************************)
(* Terms                                                                   *)
(***************************************************************************)
Mk(k, n, b, c, e) == [k |-> k, n |-> n, b |-> b, c |-> c, e |-> e]

\* Python int/long: sign n (1 = negative) and magnitude b, little-endian
\* digits of base 65536 with no leading zero digit (zero is <<>>).
RECURSIVE Canon(_)
Canon(l) ==
  IF l = <<>> THEN <<>>
  ELSE IF l[Len(l)] = 0 THEN Canon(SubSeq(l, 1, Len(l) - 1))
  ELSE l

BigInt(sign, limbs) ==
  LET m == Canon(limbs)
  IN  Mk("int", IF m = <<>> THEN 0 ELSE sign, m, <<>>, <<>>)

\* the int v, |v| < 2^31
PyInt(v) ==
  LET a == IF v < 0 THEN 0 - v ELSE v
  IN  BigInt(IF v < 0 THEN 1 ELSE 0, <<a % 65536, a \div 65536>>)

\* float: b is the binary64 in host (little-endian) memory order
Float(bytes) == Mk("float", 0, bytes, <<>>, <<>>)
Atom(name) == Mk("atom", 0, name, <<>>, <<>>)
BitBinary(s, bits) == Mk("bits", bits, s, <<>>, <<>>)
Binary(s) == Mk("str", 0, s, <<>>, <<>>)
Bool(v) == Mk("bool", v, <<>>, <<>>, <<>>)
None == Mk("none", 0, <<>>, <<>>, <<>>)
List(elems) == Mk("list", 0, <<>>, <<>>, elems)
Tuple(elems) == Mk("tuple", 0, <<>>, <<>>, elems)
\* dict: e is the sequence of (key, value) tuples in iteration order
Dict(items) == Mk("dict", 0, <<>>, <<>>, items)
\* unicode: b is the sequence of code points
Unicode(cps) == Mk("unicode", 0, cps, <<>>, <<>>)
Pid(node, id, serial, creation) == Mk("pid", creation, id, serial, <<node>>)
Reference(node, id, creation) == Mk("ref", creation, id, <<>>, <<node>>)
Port(node, id, creation) == Mk("port", creation, id, <<>>, <<node>>)
Export(module, function, arity) == Mk("export", 0, <<>>, <<>>, <<module, function, arity>>)
\* any other host object, told apart by n
Object(n) == Mk("object", n, <<>>, <<>>, <<>>)
\* placeholder of a result that carries no term
NoTerm == Mk("undefined", 0, <<>>, <<>>, <<>>)

S_true == <<116, 114, 117, 101>>
S_false == <<102, 97, 108, 115, 101>>
S_none == <<110, 111, 110, 101>>
S_python_pickle == <<112, 121, 116, 104, 111, 110, 95, 112, 105, 99, 107, 108, 101>>

(***************************************************************************)
(* Arbitrary-precision integer steps used by the codec                     *)
(***************************************************************************)
\* term & 0xff
LowByte(l) == IF l = <<>> THEN 0 ELSE l[1] % 256

\* term >>= 8
Shr8(l) ==
  Canon(Str([i \in 1..Len(l) |->
           (l[i] \div 256) + (IF i < Len(l) THEN (l[i + 1] % 256) * 256 ELSE 0)]))

\* (n << 8) | i
Shl8Or(l, i) ==
  Canon(Str([j \in 1..(Len(l) + 1) |->
           (IF j <= Len(l) THEN (l[j] % 256) * 256 ELSE 0)
           + (IF j = 1 THEN i ELSE l[j - 1] \div 256)]))

\* four turns of: bytes.append(term & 0xff); term >>= 8
Low4(l) ==
  <<LowByte(l), LowByte(Shr8(l)), LowByte(Shr8(Shr8(l))),
    LowByte(Shr8(Shr8(Shr8(l))))>>

Shr32(l) == Shr8(Shr8(Shr8(Shr8(l))))

\* bytes = array('B'); while term > 0: bytes.append(term & 0xff); term >>= 8
\* A magnitude of more than 8 digits (2 digits) is not zero for 16 (4) more
\* turns, which are taken in one step.
RECURSIVE MagnitudeBytes(_)
MagnitudeBytes(l) ==
  IF l = <<>> THEN <<>>
  ELSE IF Len(l) > 8
       THEN Low4(l) \o Low4(Shr32(l)) \o Low4(Shr32(Shr32(l)))
            \o Low4(Shr32(Shr32(Shr32(l))))
            \o MagnitudeBytes(Shr32(Shr32(Shr32(Shr32(l)))))
  ELSE IF Len(l) > 2 THEN Low4(l) \o MagnitudeBytes(Shr32(l))
  ELSE <<LowByte(l)>> \o MagnitudeBytes(Shr8(l))

\* four turns of: n = (n << 8) | i, on bytes[k], ..., bytes[k + 3]
Acc4(l, bytes, k) ==
  Shl8Or(Shl8Or(Shl8Or(Shl8Or(l, bytes[k]), bytes[k + 1]), bytes[k + 2]), bytes[k + 3])

\* n = 0; for i in bytes: n = (n << 8) | i
\* (16 or 4 turns are taken in one step while that many bytes are left;
\* n is computed before the next step)
RECURSIVE Accumulate(_, _)
Accumulate(l, bytes) ==
  IF Len(l) >= 0 /\ bytes = <<>> THEN l
  ELSE IF Len(bytes) >= 16
       THEN Accumulate(Acc4(Acc4(Acc4(Acc4(l, bytes, 1), bytes, 5), bytes, 9), bytes, 13),
                       Drop(bytes, 16))
  ELSE IF Len(bytes) >= 4 THEN Accumulate(Acc4(l, bytes, 1), Drop(bytes, 4))
  ELSE Accumulate(Shl8Or(l, bytes[1]), Tail(bytes))

\* 0 <= term <= 255
IsByteInt(t) == t.n = 0 /\ (t.b = <<>> \/ (Len(t.b) = 1 /\ t.b[1] <= 255))

\* IsInt32 with the lower limit taken as -2147483647
IsInt32_symmetric(t) ==
  \/ Len(t.b) <= 1
  \/ Len(t.b) = 2 /\ t.b[2] < 32768

\* -2147483648 <= term <= 2147483647
IsInt32(t) ==
  \/ Len(t.b) <= 1
  \/ Len(t.b) = 2 /\ t.b[2] < 32768
  \/ Len(t.b) = 2 /\ t.n = 1 /\ t.b[2] = 32768 /\ t.b[1] = 0

Limb(l, i) == IF i <= Len(l) THEN l[i] ELSE 0

\* pack(">i", term): two's complement, big-endian
PackSigned(t) ==
  LET mlo == Limb(t.b, 1)
      mhi == Limb(t.b, 2)
      lo == IF t.n = 0 THEN mlo ELSE (65536 - mlo) % 65536
      hi == IF t.n = 0 THEN mhi ELSE 65535 - mhi + (IF mlo = 0 THEN 1 ELSE 0)
  IN  PackH(hi) \o PackH(lo)

\* unpack(">i", s)
UnpackSigned(s) ==
  LET hi == UnpackH(SubSeq(s, 1, 2))
      lo == UnpackH(SubSeq(s, 3, 4))
  IN  IF hi < 32768 THEN BigInt(0, <<lo, hi>>)
      ELSE BigInt(1, <<(65536 - lo) % 65536,
                       65535 - hi + (IF lo = 0 THEN 1 ELSE 0)>>)

(***************************************************************************)
(* Host library calls made by the codec                                    *)
(***************************************************************************)
EOk(out) == [err |-> "none", out |-> out]
EErr(e) == [err |-> e, out |-> <<>>]

\* cPickle.dumps(term, -1): a protocol-2 pickle (PROTO 2 ... STOP) whose
\* body stands for the object; objects numbered above 255 cannot be pickled.
dumps(t) ==
  IF t.n \in 0..255 THEN EOk(<<128, 2, t.n, 46>>) ELSE EErr("PicklingError")

\* cPickle.loads(x): x must be a str (Atom and BitBinary are str subclasses)
\* holding a complete pickle.
loads(x) ==
  IF x.k \notin {"str", "atom", "bits"} THEN [err |-> "TypeError", term |-> NoTerm]
  ELSE IF Len(x.b) = 4 /\ x.b[1] = 128 /\ x.b[2] = 2 /\ x.b[4] = 46
       THEN [err |-> "none", term |-> Object(x.b[3])]
       ELSE [err |-> "UnpicklingError", term |-> NoTerm]

\* zlib: the 2-byte stream header written for a compression level
ZHeader(level) ==
  <<120, IF level = 1 THEN 1 ELSE IF level <= 5 THEN 94
         ELSE IF level = 6 THEN 156 ELSE 218>>

ZHeaderOk(h) == h[1] = 120 /\ h[2] \in {1, 94, 156, 218}

\* zlib: the Adler-32 checksum that ends a stream
RECURSIVE SumRange(_, _, _)
SumRange(s, lo, hi) ==
  IF lo > hi THEN 0
  ELSE IF lo = hi THEN s[lo]
  ELSE SumRange(s, lo, (lo + hi) \div 2) + SumRange(s, (lo + hi) \div 2 + 1, hi)

\* a = 1 + the sum of the bytes, b = the sum of the successive values of a
Adler32(data) ==
  LET n == Len(data)
      a == (1 + SumRange(data, 1, n)) % 65521
      b == (n + SumRange(Str([i \in 1..n |-> (n + 1 - i) * data[i]]), 1, n)) % 65521
  IN  PackH(b) \o PackH(a)

\* The length of the run of equal bytes that starts data, at most 255
RunLength(data, x) ==
  LET n == Min(Len(data), 255)
      others == {i \in 1..n : data[i] # x}
  IN  IF others = {} THEN n
      ELSE (CHOOSE i \in others : \A j \in others : i <= j) - 1

\* zlib: the deflate body, abstracted to (count, byte) runs closed by a
\* zero count; like deflate it is self-delimiting and decodes left to right.
RECURSIVE DeflateBody(_)
DeflateBody(data) ==
  IF data = <<>> THEN <<0>>
  ELSE LET c == RunLength(data, data[1])
       IN  <<c, data[1]>> \o DeflateBody(Drop(data, c))

\* zlib.compress(string, level)
compress(string, level) == ZHeader(level) \o DeflateBody(string) \o Adler32(string)

ZRes(e, out, unused) == [err |-> e, out |-> out, unused_data |-> unused]

RECURSIVE InflateBody(_, _)
InflateBody(rest, out) ==
  IF rest = <<>> THEN ZRes("none", out, <<>>)
  ELSE IF rest[1] = 0
       THEN IF Len(rest) < 5 THEN ZRes("none", out, <<>>)
            ELSE IF SubSeq(rest, 2, 5) # Adler32(out) THEN ZRes("zlib.error", <<>>, <<>>)
            ELSE ZRes("none", out, Drop(rest, 5))
       ELSE IF Len(rest) < 2 THEN ZRes("none", out, <<>>)
            ELSE InflateBody(Drop(rest, 2), out \o Rep(rest[1], rest[2]))

\* d = decompressobj(); d.decompress(data) + d.flush(); d.unused_data.
\* A stream cut short yields the output inflated so far and raises nothing.
Inflate(data) ==
  IF Len(data) < 2 THEN ZRes("none", <<>>, <<>>)
  ELSE IF ~ZHeaderOk(data) THEN ZRes("zlib.error", <<>>, <<>>)
  ELSE InflateBody(Drop(data, 2), <<>>)

(***************************************************************************)
(* Ordering of dict items (list.sort() on (key, value) tuples; keys of a   *)
(* dict are distinct, so the key decides).  Keys are ints or strs.         *)
(***************************************************************************)
RECURSIVE MagLess(_, _)
MagLess(x, y) ==
  IF Len(x) # Len(y) THEN Len(x) < Len(y)
  ELSE IF x = <<>> THEN FALSE
  ELSE IF x[Len(x)] # y[Len(y)] THEN x[Len(x)] < y[Len(y)]
  ELSE MagLess(SubSeq(x, 1, Len(x) - 1), SubSeq(y, 1, Len(y) - 1))

IntLess(x, y) ==
  IF x.n # y.n THEN x.n = 1
  ELSE IF x.n = 0 THEN MagLess(x.b, y.b) ELSE MagLess(y.b, x.b)

RECURSIVE StrLess(_, _)
StrLess(x, y) ==
  IF y = <<>> THEN FALSE
  ELSE IF x = <<>> THEN TRUE
  ELSE IF x[1] # y[1] THEN x[1] < y[1]
  ELSE StrLess(Tail(x), Tail(y))

\* Python 2 ordering: numbers before strings
KeyLess(x, y) ==
  IF x.k = "int" /\ y.k = "int" THEN IntLess(x, y)
  ELSE IF x.k = "int" THEN TRUE
  ELSE IF y.k = "int" THEN FALSE
  ELSE StrLess(x.b, y.b)

RECURSIVE InsertItem(_, _)
InsertItem(item, sorted) ==
  IF sorted = <<>> THEN <<item>>
  ELSE IF KeyLess(item.e[1], sorted[1].e[1]) THEN <<item>> \o sorted
  ELSE <<sorted[1]>> \o InsertItem(item, Tail(sorted))

\* items = term.items(); items.sort()
RECURSIVE SortItems(_)
SortItems(items) ==
  IF items = <<>> THEN <<>> ELSE InsertItem(items[1], SortItems(Tail(items)))

(***************************************************************************)
(* encode_term                                                             *)
(***************************************************************************)
RECURSIVE encode_term(_)

\* "".join(_encode_term(t) for t in term)
RECURSIVE EncodeAll(_)
EncodeAll(ts) ==
  LET Join(h, r) == IF h.err # "none" THEN h
                    ELSE IF r.err # "none" THEN r
                    ELSE EOk(h.out \o r.out)
  IN  IF ts = <<>> THEN EOk(<<>>)
      ELSE Join(encode_term(ts[1]), EncodeAll(Tail(ts)))

EncodeTuple(t) ==
  LET arity == Len(t.e)
      header == IF arity <= 255 THEN <<104, arity>> ELSE <<105>> \o PackI(arity)
      Join(body) == IF body.err # "none" THEN body ELSE EOk(header \o body.out)
  IN  Join(EncodeAll(t.e))

\* isinstance(t, (int, long)): bool is a subclass of int
IsIntInstance(t) == t.k \in {"int", "bool"}

\* the item array('B', term) stores for t; OverflowError outside 0..255
ArrayItemOk(t) == t.k = "bool" \/ IsByteInt(t)
ArrayItem(t) == IF t.k = "bool" THEN t.n ELSE LowByte(t.b)

EncodeList(t) ==
  LET length == Len(t.e)
      asBytes == /\ length <= 65535
                 /\ \A i \in 1..length : IsIntInstance(t.e[i])
                 /\ \A i \in 1..length : ArrayItemOk(t.e[i])
      Join(body) == IF body.err # "none" THEN body
                    ELSE EOk(<<108>> \o PackI(length) \o body.out \o <<106>>)
  IN  IF t.e = <<>> THEN EOk(<<106>>)
      ELSE IF asBytes
           THEN EOk(<<107>> \o PackH(length) \o Str([i \in 1..length |-> ArrayItem(t.e[i])]))
      ELSE Join(EncodeAll(t.e))

EncodeUnicode(t) ==
  LET length == Len(t.b)
  IN  IF t.b = <<>> THEN EOk(<<106>>)
      ELSE IF length <= 65535 /\ \A i \in 1..length : t.b[i] <= 255
           THEN EOk(<<107>> \o PackH(length) \o t.b)
      ELSE encode_term(List(Str([i \in 1..length |-> PyInt(t.b[i])])))

EncodeAtom(t) == EOk(<<100>> \o PackH(Len(t.b)) \o t.b)

EncodeBitBinary(t) == EOk(<<77>> \o PackI(Len(t.b)) \o <<t.n>> \o t.b)

EncodeStr(t) == EOk(<<109>> \o PackI(Len(t.b)) \o t.b)

EncodeBool(t) ==
  LET name == IF t.n = 1 THEN S_true ELSE S_false
  IN  EOk(<<100>> \o PackH(Len(name)) \o name)

EncodeInt(t) ==
  LET sign == IF t.n = 0 THEN 0 ELSE 1
      Emit(bytes, length) ==
        IF length <= 255 THEN EOk(<<110, length, sign>> \o bytes)
        ELSE EOk(<<111>> \o PackI(length) \o <<sign>> \o bytes)
      Big(bytes) == Emit(bytes, Len(bytes))
  IN  IF IsByteInt(t) THEN EOk(<<97, LowByte(t.b)>>)
      ELSE IF IsInt32(t) THEN EOk(<<98>> \o PackSigned(t))
      ELSE Big(MagnitudeBytes(t.b))

\* pack(">Bd", 70, term)
EncodeFloat(t) == EOk(<<70>> \o Rev(t.b))

EncodeDict(t) == encode_term(List(SortItems(t.e)))

EncodeNone(t) == EOk(<<100>> \o PackH(4) \o S_none)

EncodePid(t) ==
  LET Emit(node) ==
        IF node.err # "none" THEN node
        ELSE IF Len(t.c) # 4 THEN EErr("ValueError: invalid pid serial field")
        ELSE EOk(<<103>> \o node.out \o t.b \o t.c \o <<t.n>>)
  IN  Emit(encode_term(t.e[1]))

EncodeReference(t) ==
  LET num == Len(t.b) \div 4
      Emit(node) ==
        IF node.err # "none" THEN node
        ELSE EOk(<<114>> \o PackH(num) \o node.out \o <<t.n>> \o t.b)
  IN  Emit(encode_term(t.e[1]))

EncodePort(t) ==
  LET Emit(node) ==
        IF node.err # "none" THEN node
        ELSE IF Len(t.b) # 4 THEN EErr("ValueError: invalid port id field")
        ELSE EOk(<<102>> \o node.out \o t.b \o <<t.n>>)
  IN  Emit(encode_term(t.e[1]))

EncodeExport(t) ==
  LET Emit(body) == IF body.err # "none" THEN body ELSE EOk(<<113>> \o body.out)
  IN  Emit(EncodeAll(t.e))

EncodeFallback(t) ==
  LET data == dumps(t)
  IN  IF data.err # "none" THEN EErr("ValueError: unsupported data type")
      ELSE encode_term(Tuple(<<Atom(S_python_pickle), Binary(data.out)>>))

encode_term(t) ==
  CASE t.k = "tuple" -> EncodeTuple(t)
    [] t.k = "list" -> EncodeList(t)
    [] t.k = "unicode" -> EncodeUnicode(t)
    [] t.k = "atom" -> EncodeAtom(t)
    [] t.k = "bits" -> EncodeBitBinary(t)
    [] t.k = "str" -> EncodeStr(t)
    [] t.k = "bool" -> EncodeBool(t)
    [] t.k = "int" -> EncodeInt(t)
    [] t.k = "float" -> EncodeFloat(t)
    [] t.k = "dict" -> EncodeDict(t)
    [] t.k = "none" -> EncodeNone(t)
    [] t.k = "pid" -> EncodePid(t)
    [] t.k = "ref" -> EncodeReference(t)
    [] t.k = "port" -> EncodePort(t)
    [] t.k = "export" -> EncodeExport(t)
    [] OTHER -> EncodeFallback(t)

\* The compressed argument of encode: a bool (v = 1 for True) or a level.
Setting(isbool, v) == [isbool |-> isbool, v |-> v]

\* encode(term, compressed); the second component is its local encoded_term
EncodeWith(t, c) ==
  LET level == IF c.isbool THEN 6 ELSE c.v
      Pick(enc, zlib_term) ==
        IF Len(zlib_term) + 5 <= Len(enc.out)
        THEN <<EOk(<<131, 80>> \o PackI(Len(enc.out)) \o zlib_term), enc>>
        ELSE <<EOk(<<131>> \o enc.out), enc>>
      Frame(enc) ==
        IF enc.err # "none" THEN <<enc, enc>>
        ELSE IF c.v # 0 THEN Pick(enc, compress(enc.out, level))
        ELSE <<EOk(<<131>> \o enc.out), enc>>
  IN  Frame(encode_term(t))

encode(t, c) == EncodeWith(t, c)[1]

(***************************************************************************)
(* decode_term                                                             *)
(***************************************************************************)
DOk(t, tail) == [err |-> "none", term |-> t, tail |-> tail]
DErr(e) == [err |-> e, term |-> NoTerm, tail |-> <<>>]
IncompleteData == "IncompleteData"

RECURSIVE Log2(_)
Log2(n) == IF n <= 1 THEN 0 ELSE 1 + Log2(n \div 2)

RECURSIVE Pow2(_)
Pow2(e) == IF e = 0 THEN 1 ELSE 2 * Pow2(e - 1)

\* The binary64 of the natural number n < 2^20, in host memory order
DoubleOfNat(n) ==
  IF n = 0 THEN Rep(8, 0)
  ELSE LET e == Log2(n)
           biased == 1023 + e
           top20 == (n - Pow2(e)) * Pow2(20 - e)
       IN  Rev(<<biased \div 16, (biased % 16) * 16 + top20 \div 65536,
                 (top20 \div 256) % 256, top20 % 256, 0, 0, 0, 0>>)

RECURSIVE DecimalValue(_, _)
DecimalValue(text, acc) ==
  IF text = <<>> THEN acc ELSE DecimalValue(Tail(text), acc * 10 + (text[1] - 48))

\* float(text) for the numeric texts the model's inputs hold: one to six
\* decimal digits.  Every other text over the model's bytes is one float()
\* rejects with ValueError.
ParseFloat(text) ==
  IF text # <<>> /\ Len(text) <= 6 /\ \A i \in 1..Len(text) : text[i] \in 48..57
  THEN [err |-> "none", term |-> Float(DoubleOfNat(DecimalValue(text, 0)))]
  ELSE [err |-> "ValueError", term |-> NoTerm]

\* tail[:31].split("\x00", 1)[0]
RECURSIVE UptoNul(_)
UptoNul(s) ==
  IF s = <<>> \/ s[1] = 0 THEN <<>> ELSE <<s[1]>> \o UptoNul(Tail(s))

RECURSIVE decode_term(_)

\* while n > 0: term, tail = decode_term(tail); lst.append(term); n -= 1
RECURSIVE DecodeElements(_, _, _)
DecodeElements(n, tail, lst) ==
  LET Step(r) == IF r.err # "none" THEN [err |-> r.err, lst |-> <<>>, tail |-> <<>>]
                 ELSE DecodeElements(n - 1, r.tail, Append(lst, r.term))
  IN  IF n <= 0 THEN [err |-> "none", lst |-> lst, tail |-> tail]
      ELSE Step(decode_term(tail))

\* DecodeSmallInteger returning tail[:1] for tail[1:]
DecodeSmallInteger_slice(string, tail) ==
  IF tail = <<>> THEN DErr(IncompleteData)
  ELSE DOk(PyInt(tail[1]), Take(tail, 1))

DecodeSmallInteger(string, tail) ==
  IF tail = <<>> THEN DErr(IncompleteData)
  ELSE DOk(PyInt(tail[1]), Drop(tail, 1))

\* DecodeInteger unpacking ">I" for ">i"
DecodeInteger_unsigned(string, tail) ==
  IF Len(tail) < 4 THEN DErr(IncompleteData)
  ELSE DOk(BigInt(0, <<UnpackH(SubSeq(tail, 3, 4)), UnpackH(SubSeq(tail, 1, 2))>>),
           Drop(tail, 4))

DecodeInteger(string, tail) ==
  IF Len(tail) < 4 THEN DErr(IncompleteData)
  ELSE DOk(UnpackSigned(Take(tail, 4)), Drop(tail, 4))

DecodeNil(string, tail) == DOk(List(<<>>), tail)

DecodeString(string, tail) ==
  IF Len(tail) < 2 THEN DErr(IncompleteData)
  ELSE LET length == UnpackH(Take(tail, 2))
           rest == Drop(tail, 2)
       IN  IF Len(rest) < length THEN DErr(IncompleteData)
           ELSE DOk(List(Str([i \in 1..length |-> PyInt(rest[i])])), Drop(rest, length))

DecodeList(string, tail) ==
  LET Last(lst, ignored) == IF ignored.err # "none" THEN DErr(ignored.err)
                            ELSE DOk(List(lst), ignored.tail)
      Rest(elems) == IF elems.err # "none" THEN DErr(elems.err)
                     ELSE Last(elems.lst, decode_term(elems.tail))
  IN  IF Len(tail) < 4 THEN DErr(IncompleteData)
      ELSE Rest(DecodeElements(UnpackI(Take(tail, 4)), Drop(tail, 4), <<>>))

DecodeBinary(string, tail) ==
  IF Len(tail) < 4 THEN DErr(IncompleteData)
  ELSE LET length == UnpackI(Take(tail, 4))
           rest == Drop(tail, 4)
       IN  IF Len(rest) < length THEN DErr(IncompleteData)
           ELSE DOk(Binary(Take(rest, length)), Drop(rest, length))

DecodeAtom(string, tail) ==
  IF Len(tail) < 2 THEN DErr(IncompleteData)
  ELSE LET length == UnpackH(Take(tail, 2))
           rest == Drop(tail, 2)
           name == Take(rest, length)
           tail2 == Drop(rest, length)
       IN  IF Len(rest) < length THEN DErr(IncompleteData)
           ELSE IF name = S_true THEN DOk(Bool(1), tail2)
           ELSE IF name = S_false THEN DOk(Bool(0), tail2)
           ELSE IF name = S_none THEN DOk(None, tail2)
           ELSE IF Len(name) > 255 THEN DErr("ValueError: invalid atom length")
           ELSE DOk(Atom(name), tail2)

\* lst[0] == Atom("python_pickle"): str equality, whatever the str subclass
EqualsPicklePrefix(t) == t.k \in {"atom", "str", "bits"} /\ t.b = S_python_pickle

\* if len(lst) == 2 and lst[0] == Atom("python_pickle"):
\*     return loads(lst[1]), tail
\* return tuple(lst), tail
BuildTuple(lst, tail) ==
  LET Loaded(obj) == IF obj.err # "none" THEN DErr(obj.err) ELSE DOk(obj.term, tail)
  IN  IF Len(lst) = 2 /\ EqualsPicklePrefix(lst[1]) THEN Loaded(loads(lst[2]))
      ELSE DOk(Tuple(lst), tail)

DecodeTuple(string, tail, tag) ==
  LET short == IF tag = 104 THEN tail = <<>> ELSE Len(tail) < 4
      arity == IF tag = 104 THEN tail[1] ELSE UnpackI(Take(tail, 4))
      rest == IF tag = 104 THEN Drop(tail, 1) ELSE Drop(tail, 4)
      Rest(elems) == IF elems.err # "none" THEN DErr(elems.err)
                     ELSE BuildTuple(elems.lst, elems.tail)
  IN  IF short THEN DErr(IncompleteData)
      ELSE Rest(DecodeElements(arity, rest, <<>>))

DecodeNewFloat(string, tail) ==
  IF Len(Take(tail, 8)) # 8 THEN DErr("struct.error")
  ELSE DOk(Float(Rev(Take(tail, 8))), Drop(tail, 8))

DecodeFloat(string, tail) ==
  LET f == ParseFloat(UptoNul(Take(tail, 31)))
  IN  IF f.err # "none" THEN DErr(f.err) ELSE DOk(f.term, Drop(tail, 31))

DecodeBig(string, tail, tag) ==
  LET short == IF tag = 110 THEN Len(tail) < 2 ELSE Len(tail) < 5
      length == IF tag = 110 THEN tail[1] ELSE UnpackI(Take(tail, 4))
      sign == IF tag = 110 THEN tail[2] ELSE tail[5]
      \* tail[length-1::-1]; with length = 0 the slice starts at index -1
      Digits(rest) == IF length = 0 THEN Rev(rest) ELSE Rev(Take(rest, length))
      Body(rest) ==
        IF Len(rest) < length THEN DErr(IncompleteData)
        ELSE DOk(BigInt(IF sign # 0 THEN 1 ELSE 0, Accumulate(<<>>, Digits(rest))),
                 Drop(rest, length))
  IN  IF short THEN DErr(IncompleteData)
      ELSE Body(IF tag = 110 THEN Drop(tail, 2) ELSE Drop(tail, 5))

DecodeBitBinary(string, tail) ==
  IF Len(tail) < 5 THEN DErr(IncompleteData)
  ELSE LET length == UnpackI(Take(tail, 4))
           bits == tail[5]
           rest == Drop(tail, 5)
       IN  IF Len(rest) < length THEN DErr(IncompleteData)
           ELSE DOk(BitBinary(Take(rest, length), bits), Drop(rest, length))

DecodePid(string, tail) ==
  LET Fields(rest, node) ==
        IF Len(rest) < 9 THEN DErr(IncompleteData)
        ELSE DOk(Pid(node, SubSeq(rest, 1, 4), SubSeq(rest, 5, 8), rest[9]),
                 Drop(rest, 9))
      After(node) == IF node.err # "none" THEN node ELSE Fields(node.tail, node.term)
  IN  After(decode_term(tail))

DecodeReference(string, tail) ==
  LET Fields(rest, node) ==
        IF Len(rest) < 5 THEN DErr(IncompleteData)
        ELSE DOk(Reference(node, SubSeq(rest, 1, 4), rest[5]), Drop(rest, 5))
      After(node) == IF node.err # "none" THEN node ELSE Fields(node.tail, node.term)
  IN  After(decode_term(tail))

DecodePort(string, tail) ==
  LET Fields(rest, node) ==
        IF Len(rest) < 5 THEN DErr(IncompleteData)
        ELSE DOk(Port(node, SubSeq(rest, 1, 4), rest[5]), Drop(rest, 5))
      After(node) == IF node.err # "none" THEN node ELSE Fields(node.tail, node.term)
  IN  After(decode_term(tail))

DecodeNewReference(string, tail) ==
  LET length == UnpackH(Take(tail, 2)) * 4
      Fields(rest, node) ==
        IF Len(rest) < 1 + length THEN DErr(IncompleteData)
        ELSE DOk(Reference(node, SubSeq(rest, 2, length + 1), rest[1]),
                 Drop(rest, length + 1))
      After(node) == IF node.err # "none" THEN node ELSE Fields(node.tail, node.term)
  IN  IF Len(tail) < 2 THEN DErr(IncompleteData)
      ELSE After(decode_term(Drop(tail, 2)))

DecodeExport(string, tail) ==
  LET Build(parts) ==
        IF parts.err # "none" THEN DErr(parts.err)
        ELSE DOk(Export(parts.lst[1], parts.lst[2], parts.lst[3]), parts.tail)
  IN  Build(DecodeElements(3, tail, <<>>))

decode_term(string) ==
  IF string = <<>> THEN DErr(IncompleteData)
  ELSE LET tag == string[1]
           tail == Drop(string, 1)
       IN  CASE tag = 97 -> DecodeSmallInteger(string, tail)
             [] tag = 98 -> DecodeInteger(string, tail)
             [] tag = 106 -> DecodeNil(string, tail)
             [] tag = 107 -> DecodeString(string, tail)
             [] tag = 108 -> DecodeList(string, tail)
             [] tag = 109 -> DecodeBinary(string, tail)
             [] tag = 100 -> DecodeAtom(string, tail)
             [] tag = 104 \/ tag = 105 -> DecodeTuple(string, tail, tag)
             [] tag = 70 -> DecodeNewFloat(string, tail)
             [] tag = 99 -> DecodeFloat(string, tail)
             [] tag = 110 \/ tag = 111 -> DecodeBig(string, tail, tag)
             [] tag = 77 -> DecodeBitBinary(string, tail)
             [] tag = 103 -> DecodePid(string, tail)
             [] tag = 101 -> DecodeReference(string, tail)
             [] tag = 102 -> DecodePort(string, tail)
             [] tag = 114 -> DecodeNewReference(string, tail)
             [] tag = 113 -> DecodeExport(string, tail)
             [] OTHER -> DErr("ValueError: unsupported data tag")

\* decode(string)
decode(string) ==
  LET Term(r, unused_data) == IF r.err # "none" THEN r ELSE DOk(r.term, unused_data)
      Inflated(d, uncompressed_size) ==
        IF d.err # "none" THEN DErr(d.err)
        ELSE IF Len(d.out) # uncompressed_size
             THEN DErr("ValueError: invalid compressed tag")
        ELSE Term(decode_term(d.out), d.unused_data)
  IN  IF string = <<>> THEN DErr(IncompleteData)
      ELSE IF string[1] # 131 THEN DErr("ValueError: unknown protocol version")
      ELSE IF Take(Drop(string, 1), 1) = <<80>>
           THEN IF Len(string) < 6 THEN DErr(IncompleteData)
                ELSE Inflated(Inflate(Drop(string, 6)), UnpackI(SubSeq(string, 3, 6)))
      ELSE decode_term(Drop(string, 1))

(***************************************************************************)
(* Inputs                                                                  *)
(***************************************************************************)
MaxLimbs == 2
MaxElems == 2
MaxSuffix == 2
MaxRaw == 3

\* sequences over S of length 0..n
SeqsUpTo(S, n) == UNION {[1..k -> S] : k \in 0..n}

S_ok == <<111, 107>>
S_pickle7 == <<128, 2, 7, 46>>

LimbDigits == {0, 1, 255, 256, 32767, 32768, 65535}

IntTerms ==
  {BigInt(sg, l) : sg \in {0, 1}, l \in SeqsUpTo(LimbDigits, MaxLimbs)}
  \cup {BigInt(sg, l) : sg \in {0, 1}, l \in {<<0, 0, 1>>, <<1, 2, 3, 4, 5>>}}
  \cup {BigInt(0, Rep(127, 257) \o <<1>>), BigInt(1, Rep(127, 257) \o <<256>>)}

FloatTerms ==
  {Float(<<0, 0, 0, 0, 0, 0, 0, 0>>), Float(<<0, 0, 0, 0, 0, 0, 248, 63>>),
   Float(<<0, 0, 0, 0, 0, 0, 0, 192>>)}

LeafTerms ==
  {Atom(S_ok), Atom(<<>>), Atom(S_true), Atom(S_false), Atom(S_none),
   Atom(S_python_pickle), BitBinary(<<171>>, 4), Binary(<<>>), Binary(<<1, 2>>),
   Binary(S_python_pickle), Binary(S_pickle7), Bool(1), Bool(0), None,
   Unicode(<<>>), Unicode(<<97, 233>>), Unicode(<<97, 256>>),
   Object(7), Object(256)}
  \cup {Binary(Rep(n, 97)) : n \in {14, 15, 16, 40}}

ElemTerms ==
  {PyInt(1), PyInt(256), Bool(1), Bool(0), Atom(S_ok), Atom(S_python_pickle),
   Binary(<<>>), Binary(S_pickle7), List(<<>>)}

ListTerms == {List(l) : l \in SeqsUpTo(ElemTerms, MaxElems)}

TupleTerms == {Tuple(l) : l \in SeqsUpTo(ElemTerms, MaxElems)}

N_node == Atom(<<110, 64, 104>>)

NestedTerms ==
  {List(<<List(<<PyInt(1), Bool(1)>>), Tuple(<<Bool(0)>>)>>),
   List(Rep(20, PyInt(0))), List(Rep(20, Bool(1))),
   Tuple(<<Bool(1), List(<<Bool(1), Bool(0)>>)>>),
   Tuple(<<Atom(S_ok), PyInt(42)>>),
   Tuple(<<Binary(S_python_pickle), Binary(S_pickle7)>>),
   Tuple(<<Atom(S_python_pickle), Atom(S_ok)>>),
   Tuple(<<Atom(S_python_pickle), Binary(S_pickle7), PyInt(1)>>),
   Tuple(<<Float(<<0, 0, 0, 0, 0, 0, 248, 63>>), Atom(S_true)>>),
   Dict(<<>>),
   Dict(<<Tuple(<<PyInt(2), Atom(S_ok)>>), Tuple(<<PyInt(1), Bool(1)>>)>>),
   Dict(<<Tuple(<<Atom(S_ok), PyInt(1)>>), Tuple(<<PyInt(-1), PyInt(2)>>),
          Tuple(<<Atom(<<>>), PyInt(3)>>)>>),
   Export(Atom(S_ok), Atom(S_ok), PyInt(2)),
   Export(Atom(S_ok), Atom(S_true), PyInt(2)),
   Export(Atom(S_ok), Object(256), PyInt(2))}

IdTerms ==
  {Pid(N_node, id, serial, 3) : id \in {<<0, 0, 0, 1>>, <<0, 0, 1>>, <<0, 0, 0, 0, 1>>},
                                serial \in {<<0, 0, 0, 2>>, <<0, 0, 2>>}}
  \cup {Port(N_node, id, 3) : id \in {<<0, 0, 0, 1>>, <<0, 0, 1>>, <<0, 0, 0, 0, 1>>}}
  \cup {Reference(N_node, id, 3) :
          id \in {<<>>, <<0, 0, 1>>, <<0, 0, 0, 1>>, <<0, 0, 0, 0, 1>>,
                  <<0, 0, 0, 1, 0, 0, 0, 2>>}}
  \cup {Pid(Atom(S_true), <<0, 0, 0, 1>>, <<0, 0, 0, 2>>, 0),
        Port(Object(256), <<0, 0, 0, 1>>, 0)}

Terms == IntTerms \cup FloatTerms \cup LeafTerms \cup ListTerms \cup TupleTerms
         \cup NestedTerms \cup IdTerms

\* compressed = False, True, 0, 9
Settings == {Setting(TRUE, 0), Setting(TRUE, 1), Setting(FALSE, 0), Setting(FALSE, 9)}

Off == Setting(TRUE, 0)

Suffixes == SeqsUpTo({0, 106, 131}, MaxSuffix)

(***************************************************************************)
(* The codec driven as its callers drive it: encode a term, then decode    *)
(* the frame whole, cut short, or followed by more bytes, and encode the   *)
(* decoded term again.                                                     *)
(***************************************************************************)
Unset == EErr("unset")
NoResult == DErr("unset")

Init ==
  /\ term \in Terms
  /\ compressed \in Settings
  /\ encoded_term = Unset
  /\ frame = Unset
  /\ input = <<>>
  /\ result = NoResult
  /\ reframe = Unset
  /\ pc = "start"

Encode ==
  /\ pc = "start"
  /\ LET r == EncodeWith(term, compressed)
     IN  frame' = r[1] /\ encoded_term' = r[2]
  /\ pc' = "encoded"
  /\ UNCHANGED <<term, compressed, input, result, reframe>>

DecodeFrame ==
  /\ pc = "encoded"
  /\ frame.err = "none"
  /\ input' = frame.out
  /\ result' = decode(frame.out)
  /\ pc' = "decoded"
  /\ UNCHANGED <<term, compressed, encoded_term, frame, reframe>>

DecodeTruncated ==
  /\ pc = "encoded"
  /\ frame.err = "none"
  /\ \E k \in 0..(Len(frame.out) - 1) :
       /\ input' = Take(frame.out, k)
       /\ result' = decode(Take(frame.out, k))
  /\ pc' = "truncated"
  /\ UNCHANGED <<term, compressed, encoded_term, frame, reframe>>

DecodeWithTail ==
  /\ pc = "encoded"
  /\ frame.err = "none"
  /\ \E s \in Suffixes :
       /\ input' = frame.out \o s
       /\ result' = decode(frame.out \o s)
  /\ pc' = "tailed"
  /\ UNCHANGED <<term, compressed, encoded_term, frame, reframe>>

Reencode ==
  /\ pc = "decoded"
  /\ result.err = "none"
  /\ reframe' = encode(result.term, Off)
  /\ pc' = "reencoded"
  /\ UNCHANGED <<term, compressed, encoded_term, frame, input, result>>

Next == Encode \/ DecodeFrame \/ DecodeTruncated \/ DecodeWithTail \/ Reencode

Spec == Init /\ [][Next]_vars

(***************************************************************************)
(* decode_term on arbitrary bytes, and the caller's loop that decodes the  *)
(* next term from the tail it got back.                                    *)
(***************************************************************************)
Tags == {70, 77, 97, 98, 99, 100, 101, 102, 103, 104, 105, 106, 107, 108,
         109, 110, 111, 113, 114, 0, 131}

RawBytes == {0, 1, 2, 49, 97, 104, 106, 108, 255}

RawInputs ==
  {<<tg>> \o r : tg \in Tags, r \in SeqsUpTo(RawBytes, MaxRaw)}
  \cup {<<108, 255, 255, 255, 255, 106, 106>>, <<105, 255, 255, 255, 255, 97, 1>>,
        <<108, 0, 0, 0, 2, 104, 1, 97, 7, 108, 0, 0, 0, 1, 106, 106, 106, 9>>,
        <<113, 100, 0, 1, 109, 100, 0, 1, 102, 97, 2, 9>>,
        <<103, 100, 0, 1, 110, 0, 0, 0, 1, 0, 0, 0, 2, 3, 9>>,
        <<114, 0, 1, 100, 0, 1, 110, 3, 0, 0, 0, 1, 9>>,
        <<110, 0, 0, 5>>, <<>>}

InitRaw ==
  /\ input \in RawInputs
  /\ term = NoTerm
  /\ compressed = Off
  /\ encoded_term = Unset
  /\ frame = Unset
  /\ result = NoResult
  /\ reframe = Unset
  /\ pc = "raw"

DecodeTermRaw ==
  /\ pc = "raw"
  /\ result' = decode_term(input)
  /\ pc' = "returned"
  /\ UNCHANGED <<term, compressed, encoded_term, frame, input, reframe>>

DecodeNextTerm ==
  /\ pc = "returned"
  /\ result.err = "none"
  /\ input' = result.tail
  /\ result' = decode_term(result.tail)
  /\ UNCHANGED <<term, compressed, encoded_term, frame, reframe, pc>>

NextRaw == DecodeTermRaw \/ DecodeNextTerm

SpecRaw == InitRaw /\ [][NextRaw]_vars

(***************************************************************************)
(* Properties                                                              *)
(***************************************************************************)
Truthy(c) == c.v # 0

IsPickleName(t) == t.k \in {"atom", "str", "bits"} /\ t.b = S_python_pickle

\* t is built from the variants of the data model, each within its invariant
RECURSIVE InDataModel(_)
InDataModel(t) ==
  CASE t.k \in {"int", "float", "str", "bool", "none"} -> TRUE
    [] t.k = "atom" -> Len(t.b) <= 255
    [] t.k = "bits" -> t.n \in 1..8
    [] t.k \in {"list", "tuple", "dict"} -> \A i \in 1..Len(t.e) : InDataModel(t.e[i])
    [] t.k = "pid" -> t.e[1].k = "atom" /\ Len(t.b) = 4 /\ Len(t.c) = 4
    [] t.k = "port" -> t.e[1].k = "atom" /\ Len(t.b) = 4
    [] t.k = "ref" -> t.e[1].k = "atom" /\ Len(t.b) >= 4 /\ Len(t.b) % 4 = 0
    [] t.k = "export" -> /\ t.e[1].k = "atom" /\ t.e[2].k = "atom"
                         /\ t.e[3].k = "int" /\ t.e[3].n = 0 /\ Len(t.e[3].b) <= 1
                         /\ Limb(t.e[3].b, 1) <= 255
    [] OTHER -> FALSE

\* a list the wire carries as raw bytes: not empty, every element an Integer
\* in 0..255 or a Boolean
IsByteList(t) ==
  /\ t.k = "list" /\ t.e # <<>>
  /\ \A i \in 1..Len(t.e) :
       \/ t.e[i].k = "bool"
       \/ t.e[i].k = "int" /\ t.e[i].n = 0 /\ Len(t.e[i].b) <= 1 /\ Limb(t.e[i].b, 1) <= 255

\* the terms the amended round trip covers
RECURSIVE Transmissible(_)
Transmissible(t) ==
  CASE t.k \in {"int", "float", "str", "bool", "none"} -> TRUE
    [] t.k = "atom" -> Len(t.b) <= 255 /\ t.b \notin {S_true, S_false, S_none}
    [] t.k = "bits" -> t.n \in 1..8
    [] t.k = "list" -> \A i \in 1..Len(t.e) : Transmissible(t.e[i])
    [] t.k = "tuple" -> /\ \A i \in 1..Len(t.e) : Transmissible(t.e[i])
                        /\ ~(Len(t.e) = 2 /\ IsPickleName(t.e[1]))
    [] t.k = "pid" -> Transmissible(t.e[1]) /\ Len(t.b) = 4 /\ Len(t.c) = 4
    [] t.k = "port" -> Transmissible(t.e[1]) /\ Len(t.b) = 4
    [] t.k = "ref" -> Transmissible(t.e[1]) /\ Len(t.b) % 4 = 0
    [] t.k = "export" -> \A i \in 1..3 : Transmissible(t.e[i])
    [] OTHER -> FALSE

\* t with the Booleans of every byte list replaced by the Integers 1 and 0
RECURSIVE Received(_)
Received(t) ==
  IF IsByteList(t)
  THEN List(Str([i \in 1..Len(t.e) |->
                   IF t.e[i].k = "bool" THEN PyInt(t.e[i].n) ELSE t.e[i]]))
  ELSE IF t.e = <<>> THEN t
  ELSE Mk(t.k, t.n, t.b, t.c, Str([i \in 1..Len(t.e) |-> Received(t.e[i])]))

C2_IncompleteDetection ==
  (pc = "truncated" /\ InDataModel(term)) => result.err = IncompleteData

\* C3: for every valid encoded frame f (uncompressed or compressed) and every
\* byte string s, decode(f ++ s) succeeds, its first component is the term
\* decoded from f alone, and its second component is exactly s.
C3_TailPreservation ==
  (pc = "tailed" /\ InDataModel(term))
    => /\ result.err = "none"
       /\ result.term = decode(frame.out).term
       /\ result.tail = Drop(input, Len(frame.out))

\* C4: with a truthy compression setting encode returns the compressed
\* framing only if that whole frame is strictly shorter than encode(t, off);
\* whenever the compressed frame would be the same length or longer, the
\* output is byte-for-byte encode(t, off).
C4_CompressionStrictlyShrinks ==
  (pc = "encoded" /\ Truthy(compressed) /\ frame.err = "none")
    => LET plain == <<131>> \o encoded_term.out
           packed == <<131, 80, 0, 0, 0, 0>>
                     \o compress(encoded_term.out, IF compressed.isbool THEN 6 ELSE compressed.v)
       IN  /\ Take(frame.out, 2) = <<131, 80>> => Len(frame.out) < Len(plain)
           /\ Len(packed) >= Len(plain) => frame.out = plain

\* C5: when decode_term has built a tuple of arity 2 whose element 0 is the
\* Atom python_pickle, the deserialize bridge is invoked only if element 1 is
\* a Binary, and whenever the bridge is not applicable or fails on the
\* payload, decode_term returns the raw 2-tuple together with the bytes that
\* follow the tuple instead of raising an error.
C5_FallbackNeverFails ==
  (/\ pc = "decoded" /\ ~Truthy(compressed)
   /\ term.k = "tuple" /\ Len(term.e) = 2 /\ term.e[1] = Atom(S_python_pickle)
   /\ term.e[2].k \in {"str", "int"}
   /\ (term.e[2].k # "str" \/ term.e[2].b # S_pickle7))
    => result = DOk(term, <<>>)

\* a term whose encoding is deterministic: no dict with keys of mixed type
RECURSIVE Deterministic(_)
Deterministic(t) ==
  /\ t.k = "dict" => \A i, j \in 1..Len(t.e) : t.e[i].e[1].k = t.e[j].e[1].k
  /\ \A i \in 1..Len(t.e) : Deterministic(t.e[i])

\* C6: for every term t on which encode(t, off) succeeds and whose encoding
\* is deterministic, decode(encode(t, off)) succeeds and encoding its first
\* component again gives encode(t, off) byte for byte.
C6_IdempotentReencode ==
  /\ (pc = "decoded" /\ ~Truthy(compressed) /\ Deterministic(term)) => result.err = "none"
  /\ (pc = "reencoded" /\ ~Truthy(compressed) /\ Deterministic(term)) => reframe = frame

IsInvalidField(r) ==
  /\ r.err \in {"ValueError: invalid pid serial field", "ValueError: invalid port id field",
                "ValueError: invalid pid id field", "ValueError: invalid reference id field"}
  /\ r.out = <<>>

\* C7: encode_term fails with InvalidField, producing no bytes, for every
\* Pid whose id or serial is not exactly 4 bytes, every Port whose id is not
\* exactly 4 bytes, and every Reference whose id length is not a positive
\* multiple of 4.
C7_FixedWidthFields ==
  (pc = "encoded" /\ term.e # <<>> /\ term.e[1].k = "atom")
    => /\ (term.k = "pid" /\ (Len(term.b) # 4 \/ Len(term.c) # 4))
            => IsInvalidField(encoded_term)
       /\ (term.k = "port" /\ Len(term.b) # 4) => IsInvalidField(encoded_term)
       /\ (term.k = "ref" /\ (Len(term.b) = 0 \/ Len(term.b) % 4 # 0))
            => IsInvalidField(encoded_term)

\* the value of an integer of magnitude below 2^31
HasSmallValue(t) == Len(t.b) <= 2 /\ Limb(t.b, 2) < 32768
SmallValue(t) ==
  (IF t.n = 1 THEN 0 - 1 ELSE 1) * (Limb(t.b, 1) + 65536 * Limb(t.b, 2))

BigEndian4(v) ==
  <<v \div 16777216, (v \div 65536) % 256, (v \div 256) % 256, v % 256>>

\* the 32-bit two's complement of v, -2^31 < v < 2^31
TwosComplement(v) ==
  IF v >= 0 THEN BigEndian4(v)
  ELSE [i \in 1..4 |-> 255 - BigEndian4(0 - v - 1)[i]]

\* the base-65536 digits that the little-endian bytes spell
DigitsOfBytes(bytes) ==
  [i \in 1..((Len(bytes) + 1) \div 2) |->
     bytes[2 * i - 1] + 256 * (IF 2 * i <= Len(bytes) THEN bytes[2 * i] ELSE 0)]

\* C8: encode_term(n) is tag 97 plus one byte exactly when 0 <= n <= 255;
\* otherwise tag 98 plus the signed big-endian 32-bit value exactly when
\* -2^31 <= n <= 2^31-1; otherwise tag 110 (magnitude length <= 255) or 111
\* with sign byte 0 for n >= 0 and 1 for n < 0 and the little-endian bytes of
\* |n| of minimum length; and decode_term of that encoding returns n with an
\* empty tail.
C8_IntegerEncoding ==
  (pc # "start" /\ term.k = "int")
    => LET out == encoded_term.out
           len1 == out[2]
           len4 == out[2] * 16777216 + out[3] * 65536 + out[4] * 256 + out[5]
           bytes == IF out[1] = 110 THEN SubSeq(out, 4, Len(out))
                    ELSE SubSeq(out, 7, Len(out))
       IN  /\ encoded_term.err = "none"
           /\ IF HasSmallValue(term) /\ SmallValue(term) \in 0..255
              THEN out = <<97, SmallValue(term)>>
              ELSE IF HasSmallValue(term)
              THEN out = <<98>> \o TwosComplement(SmallValue(term))
              ELSE IF term.n = 1 /\ term.b = <<0, 32768>>
              THEN out = <<98, 128, 0, 0, 0>>
              ELSE /\ out[1] = (IF Len(bytes) <= 255 THEN 110 ELSE 111)
                   /\ out[1] = 110 => len1 = Len(bytes) /\ out[3] = term.n
                   /\ out[1] = 111 => len4 = Len(bytes) /\ out[6] = term.n
                   /\ bytes # <<>> /\ bytes[Len(bytes)] # 0
                   /\ DigitsOfBytes(bytes) = term.b
           /\ (pc = "decoded" /\ input = <<131>> \o out) => result = DOk(term, <<>>)

C8_Witness ==
  /\ pc = "decoded" /\ ~Truthy(compressed)
  /\ term = BigInt(1, Rep(127, 257) \o <<256>>)
  /\ SubSeq(encoded_term.out, 1, 6) = <<111, 0, 0, 1, 0, 1>>
  /\ result.term = term

\* C9: encode_term of a non-empty list uses the STRING tag 107 only when the
\* length is <= 65535 and every element is an Integer in [0, 255]; a list
\* that contains any Boolean element is encoded with tag 108, so that no
\* Boolean element is ever emitted as the byte 0 or 1.
C9_BooleanBeforeInteger ==
  (pc = "encoded" /\ term.k = "list" /\ term.e # <<>> /\ encoded_term.err = "none")
    => /\ encoded_term.out[1] = 107
            => \A i \in 1..Len(term.e) :
                 /\ term.e[i].k = "int" /\ HasSmallValue(term.e[i])
                 /\ SmallValue(term.e[i]) \in 0..255
       /\ (\E i \in 1..Len(term.e) : term.e[i].k = "bool") => encoded_term.out[1] = 108

====
